---- MODULE Spec2Model ----
(***************************************************************************)
(* A model of financial_news_scraper.py: the articles store, the           *)
(* per-article pipeline process_article, the two multi-source runs         *)
(* scrape_by_date_range and scrape_all_articles, and the query, export     *)
(* and analysis operations the interactive menu offers.                    *)
(*                                                                         *)
(* Time.  An instant is an integer number of sub-second ticks.  A second   *)
(* has SubPerSec ticks and a day SecPerDay seconds, so that "the last      *)
(* second of a day" (23:59:59) and "a fraction of a second later" are      *)
(* distinct instants.  A 'YYYY-MM-DD HH:MM:SS' string is modelled by the   *)
(* number of whole seconds it denotes (strings of that fixed format order  *)
(* as these numbers do) and a 'YYYY-MM-DD' string by its day number.       *)
(***************************************************************************)
EXTENDS Integers, Sequences, FiniteSets, TLC

\* ------------------------------------------------------------- bounds
SubPerSec == 2
SecPerDay == 2
NumDays == 2
MaxNow == 1
MaxLinks == 2
MaxPhrases == 2
MaxN == 3
MaxTokens == 5
NowYears == 2
\* timedelta(days=7): the default look-back of a run and of the quality check
DefaultDays == 7

DayLen == SecPerDay * SubPerSec
Instants == 0 .. (NumDays * DayLen - 1)
Days == 0 .. (NumDays - 1)

\* ------------------------------------------------------------ inputs
\* self.news_sources, in declaration order (the first two of the seven)
news_sources == << "CNBC", "Bloomberg" >>
NumSources == Len(news_sources)

URLs == { "u1", "u2" }

\* A page text is modelled by the set of keyword phrases that occur in its
\* lower-cased title + " " + content.
Contents == { {"stock", "stocks", "market"} }

NoDate == [kind |-> "none", day |-> 0]
BadDate == [kind |-> "bad", day |-> 0]
ValidDates == { [kind |-> "date", day |-> d] : d \in Days }
\* what a caller may pass for a date argument: nothing, a 'YYYY-MM-DD'
\* string, or a string that is not of that form
DateArgs == { NoDate, BadDate } \cup ValidDates
DateStrings == { BadDate } \cup ValidDates

\* ------------------------------------------------------ time functions
Min(a, b) == IF a <= b THEN a ELSE b
Max(a, b) == IF a >= b THEN a ELSE b

\* datetime.strptime(s, '%Y-%m-%d').replace(tzinfo=utc): midnight of the day;
\* a string of another form raises ValueError
strptime_ok(s) == s.kind = "date"
strptime(s) == s.day * DayLen

\* an end date left at midnight
end_of_day_midnight(t) == t

\* dt.replace(hour=23, minute=59, second=59): same day, last second, the
\* sub-second part kept
end_of_day(t) == (t \div DayLen) * DayLen + (SecPerDay - 1) * SubPerSec + (t % SubPerSec)

\* dt.strftime('%Y-%m-%d %H:%M:%S'): the sub-second part is dropped
strftime(t) == t \div SubPerSec

\* dt.strftime('%Y-%m-%d')
strftime_day(t) == [kind |-> "date", day |-> t \div DayLen]

\* SQLite DATE(publish_date) of a stored 'YYYY-MM-DD HH:MM:SS' string
sql_date(secs) == secs \div SecPerDay

\* -------------------------------------------------------------- state
VARIABLES
    articles,       \* the articles table: a set of rows
    search_terms,   \* the search_terms table: a set of [term, last_search]
    now,            \* the UTC clock
    pc,             \* where the program is
    run,            \* locals of the running scrape_* call
    pa,             \* locals of the running process_article call
    log,            \* the messages the last step wrote to the log
    result,         \* what the last finished operation returned
    visited,        \* sources whose link discovery this run has attempted
    added,          \* per URL, how often process_article returned True this run
    reports,        \* coverage reports printed since the current run began
    w,              \* concurrent process_article calls (SpecConc only)
    lock,           \* the database write lock (SpecConc only)
    fn              \* a call of a pure function: its arguments and its value

vars == << articles, search_terms, now, pc, run, pa, log, result, visited,
           added, reports, w, lock, fn >>

\* ----------------------------------------------------------- categorizer
\* categorize_article: the categories dict, in declaration order
category_order == << "stocks", "cryptocurrency", "economy", "markets",
                     "business", "personal_finance", "real_estate" >>

category_keywords(c) ==
    CASE c = "stocks" -> {"stock", "stocks", "equities", "nasdaq", "dow jones", "nyse", "s&p"}
      [] c = "cryptocurrency" -> {"bitcoin", "ethereum", "crypto", "blockchain", "token", "cryptocurrency"}
      [] c = "economy" -> {"economy", "gdp", "inflation", "recession", "economic growth", "fed", "federal reserve"}
      [] c = "markets" -> {"market", "trading", "trader", "bulls", "bears", "rally", "correction"}
      [] c = "business" -> {"company", "earnings", "revenue", "profit", "ceo", "startup", "merger", "acquisition"}
      [] c = "personal_finance" -> {"investing", "retirement", "mortgage", "loan", "credit", "debt", "saving"}
      [] c = "real_estate" -> {"housing", "real estate", "property", "mortgage", "commercial real estate"}

\* sum(1 for keyword in keywords if keyword.lower() in full_text)
category_score(c, text) == Cardinality(category_keywords(c) \cap text)

\* ties between categories broken by the last one declared
categorize_article_last_wins(text) ==
    LET scored == { i \in 1 .. Len(category_order) :
                        category_score(category_order[i], text) > 0 }
        best == { i \in scored : \A j \in scored :
                        category_score(category_order[j], text)
                            <= category_score(category_order[i], text) }
    IN  IF scored = {} THEN "general"
        ELSE category_order[CHOOSE i \in best : \A j \in best : i >= j]

\* max(category_scores, key=category_scores.get): the first category, in
\* declaration order, whose positive score no other category exceeds
categorize_article(text) ==
    LET scored == { i \in 1 .. Len(category_order) :
                        category_score(category_order[i], text) > 0 }
        best == { i \in scored : \A j \in scored :
                        category_score(category_order[j], text)
                            <= category_score(category_order[i], text) }
    IN  IF scored = {} THEN "general"
        ELSE category_order[CHOOSE i \in best : \A j \in best : i <= j]

\* the category of each page text of the model
CategoryOf == [text \in Contents |-> categorize_article(text)]

\* ------------------------------------------------------------ the store
\* SELECT id FROM articles WHERE url=? ... cursor.fetchone()
ExistsInStore(arts, url) == \E r \in arts : r.url = url

ViolatesUnique_off(arts, url) == FALSE
\* url TEXT UNIQUE: an INSERT of a url the table holds raises IntegrityError
ViolatesUnique(arts, url) == \E r \in arts : r.url = url

\* the data dict of process_article and the id AUTOINCREMENT gives the row
NewRow(arts, url, source, article_data, t) ==
    [ id |-> Cardinality(arts) + 1,
      url |-> url,
      source |-> source,
      publish_date |-> strftime(article_data.publish_date),
      content |-> article_data.content,
      retrieved_date |-> strftime(t),
      category |-> CategoryOf[article_data.content] ]

\* INSERT INTO articles ... ; conn.commit()
\* an INSERT whose row is lost
InsertRow_lost(arts, row) == arts

InsertRow(arts, row) == arts \cup { row }

InDateRange_open_end(start, end, p) == start <= p /\ p < end
\* start_date <= article_data['publish_date'] <= end_date
InDateRange(start, end, p) == start <= p /\ p <= end

\* ------------------------------------------------- what a fetch can give
\* extract_article_links keeps each href once: a listing is a sequence of
\* distinct URLs
LinkLists ==
    { l \in UNION { [1 .. n -> URLs] : n \in 0 .. MaxLinks } :
        \A i, j \in 1 .. Len(l) : i # j => l[i] # l[j] }

\* An article page, as extract_article_content sees it: the fetch fails, the
\* extraction raises, or the page has a text and a date element that is
\* absent ("absent"), fails the relative rule ("bad_rel"), fails the
\* absolute rule ("bad_abs") or parses to the instant `at` ("ok").
Pages ==
    { [kind |-> k, date |-> "n/a", at |-> 0, content |-> {}] :
          k \in {"fetch_fail", "extract_error"} }
    \cup
    { [kind |-> "page", date |-> d, at |-> 0, content |-> c] :
          d \in {"absent", "bad_rel", "bad_abs"}, c \in Contents }
    \cup
    { [kind |-> "page", date |-> "ok", at |-> t, content |-> c] :
          t \in Instants, c \in Contents }

NoData == [ok |-> FALSE, publish_date |-> 0, content |-> {}]

extract_article_content_strict(page, t) ==
    IF page.kind # "page" \/ page.date \in {"bad_rel", "bad_abs"} THEN NoData
    ELSE [ ok |-> TRUE,
           publish_date |-> IF page.date = "ok" THEN page.at ELSE t,
           content |-> page.content ]
\* extract_article_content: None on a failed fetch or any exception, else
\* the draft; a missing or unparseable date becomes the current time
extract_article_content(page, t) ==
    IF page.kind # "page" THEN NoData
    ELSE [ ok |-> TRUE,
           publish_date |-> IF page.date = "ok" THEN page.at ELSE t,
           content |-> page.content ]

\* what extract_article_content logs for a page
ExtractLog(page) ==
    CASE page.kind = "fetch_fail" -> << "Error fetching" >>
      [] page.kind = "extract_error" -> << "Error extracting content" >>
      [] page.kind = "page" /\ page.date \in {"bad_rel", "bad_abs"} -> << "Could not parse date" >>
      [] OTHER -> << >>

\* ------------------------------------------------------- initial state
\* the progress line of the article loop: processed / total_links, the ETA
\* (elapsed_time / processed, times remaining) when it is computed, and the
\* articles added from this source so far
NoEta == [computed |-> FALSE, divisor |-> 0, remaining |-> 0]
NoProgress == [processed |-> 0, total_links |-> 0, new_added |-> 0, eta |-> NoEta]

\* rows_before is not a variable of the code: it is the number of rows the
\* table held when the run began
Idle == [ mode |-> "none", filtered |-> FALSE, start |-> 0, end |-> 0,
          src |-> 0, links |-> << >>, idx |-> 0,
          total_new_articles |-> 0, new_added |-> 0, progress |-> NoProgress,
          rows_before |-> 0 ]

NoCall == [ url |-> "", source |-> "", db |-> "none", ret |-> "none",
            date_kind |-> "n/a", clock_read |-> -1, article_data |-> NoData,
            steps |-> << >> ]

NoResult == [kind |-> "none"]
Raised(op, e) == [kind |-> "raised", op |-> op, exc |-> e]
Count(op, n) == [kind |-> "count", op |-> op, n |-> n]
Rows(op, args, q) == [kind |-> "rows", op |-> op, args |-> args, rows |-> q]

Workers == { 1, 2 }
NoRange == [filtered |-> FALSE, start |-> 0, end |-> 0]
NotCalled == [ pc |-> "idle", url |-> "", source |-> "", date_range |-> NoRange,
               article_data |-> NoData, row |-> {}, ret |-> "none",
               inserted |-> FALSE ]
NoWorkers == [i \in Workers |-> NotCalled]

\* __init__ and setup_database: both tables exist and are empty on a new
\* database file; main() then shows the menu
ProgramInit ==
    /\ articles = {}
    /\ search_terms = {}
    /\ now = 0
    /\ pc = "menu"
    /\ run = Idle
    /\ pa = NoCall
    /\ log = << "Database setup complete" >>
    /\ result = NoResult
    /\ visited = {}
    /\ added = [u \in URLs |-> 0]
    /\ reports = 0
    /\ w = NoWorkers
    /\ lock = 0

\* no pure function is under check
NoFn == [op |-> "none"]

Init == ProgramInit /\ fn = NoFn

conc_vars == << w, lock, fn >>

prog_vars == << articles, search_terms, now, pc, run, pa, log, result, visited,
               added, reports, w, lock >>

\* the clock advances between any two steps
Tick ==
    /\ pc # "exit"
    /\ now < MaxNow
    /\ now' = now + 1
    /\ UNCHANGED << articles, search_terms, pc, run, pa, log, result, visited,
                    added, reports, conc_vars >>

\* ------------------------------------------------------ the two runs
\* scrape_by_date_range, up to the source loop: the date arguments.  An
\* argument that is not of the form YYYY-MM-DD makes strptime raise
\* ValueError, which nothing in the function catches; main() prints it and
\* returns.
StartRecent(start_date_str, end_date_str) ==
    /\ pc = "menu"
    /\ \E n2 \in now .. Min(now + 1, MaxNow) :
        LET end_ok == end_date_str.kind = "none" \/ strptime_ok(end_date_str)
            start_ok == start_date_str.kind = "none" \/ strptime_ok(start_date_str)
            end_date == IF end_date_str.kind = "none" THEN now
                        ELSE end_of_day(strptime(end_date_str))
            start_date == IF start_date_str.kind = "none" THEN n2 - DefaultDays * DayLen
                          ELSE strptime(start_date_str)
        IN  IF end_ok /\ start_ok
            THEN /\ run' = [ mode |-> "recent", filtered |-> TRUE,
                             start |-> start_date, end |-> end_date,
                             src |-> 1, links |-> << >>, idx |-> 0,
                             total_new_articles |-> 0, new_added |-> 0,
                             progress |-> NoProgress,
                             rows_before |-> Cardinality(articles) ]
                 /\ pc' = "discover"
                 /\ log' = << "Scraping articles from" >>
                 /\ result' = NoResult
                 /\ now' = IF start_date_str.kind = "none" THEN n2 ELSE now
            ELSE /\ pc' = "exit"
                 /\ result' = Raised("scrape_by_date_range", "ValueError")
                 /\ log' = << >>
                 /\ UNCHANGED << run, now >>
    /\ visited' = {}
    /\ added' = [u \in URLs |-> 0]
    /\ reports' = 0
    /\ UNCHANGED << articles, search_terms, pa, conc_vars >>

\* scrape_all_articles, up to the source loop
StartAll ==
    /\ pc = "menu"
    /\ run' = [ mode |-> "all", filtered |-> FALSE, start |-> 0, end |-> 0,
                src |-> 1, links |-> << >>, idx |-> 0,
                total_new_articles |-> 0, new_added |-> 0, progress |-> NoProgress,
                rows_before |-> Cardinality(articles) ]
    /\ pc' = "discover"
    /\ result' = NoResult
    /\ visited' = {}
    /\ added' = [u \in URLs |-> 0]
    /\ reports' = 0
    /\ log' = << >>
    /\ UNCHANGED << articles, search_terms, now, pa, conc_vars >>

\* The end of one iteration of `for source_idx, ... in enumerate(all_sources)`
\* that ran with locals r and logged msgs: the next source, or what follows
\* the loop.
AfterSource(r, msgs) ==
    IF r.src < NumSources
    THEN /\ run' = [r EXCEPT !.src = r.src + 1, !.links = << >>, !.idx = 0,
                             !.new_added = 0]
         /\ pc' = "discover"
         /\ log' = msgs
         /\ UNCHANGED result
    ELSE IF r.mode = "recent"
    THEN /\ run' = [r EXCEPT !.links = << >>, !.idx = 0, !.new_added = 0]
         /\ pc' = "report"
         /\ log' = msgs
         /\ UNCHANGED result
    ELSE /\ run' = Idle
         /\ pc' = "print"
         /\ log' = Append(msgs, "Full scraping completed")
         /\ result' = Count("scrape_all_articles", r.total_new_articles)

\* get_soup of a listing page: the parsed page's links, or None on a
\* RequestException; "error" is any other exception in the discovery
ListingOutcomes ==
    { [kind |-> "fetch_fail", links |-> << >>], [kind |-> "error", links |-> << >>] }
    \cup { [kind |-> "links", links |-> l] : l \in LinkLists }

\* extract_article_links that hands back a link when it is given no page
extract_article_links_stale(outcome) ==
    IF outcome.kind = "links" THEN outcome.links ELSE << "u1" >>

\* what get_soup hands extract_article_links, and what that returns
extract_article_links(outcome) ==
    IF outcome.kind = "links" THEN outcome.links ELSE << >>

\* extract_article_links as the source loop calls it, and `if links:`; the
\* lines printed for the new source end the progress line of the one before
Discover(outcome) ==
    /\ pc = "discover"
    /\ visited' = visited \cup { run.src }
    /\ LET links == extract_article_links(outcome)
           msgs == IF outcome.kind = "fetch_fail"
                   THEN << "Error fetching", "Found potential article links" >>
                   ELSE << "Found potential article links" >>
       IN  IF outcome.kind = "error"
           THEN /\ pc' = "except"
                /\ log' = << >>
                /\ run' = [run EXCEPT !.progress = NoProgress]
                /\ UNCHANGED result
           ELSE IF links # << >>
           THEN /\ run' = [run EXCEPT !.links = links, !.idx = 1, !.new_added = 0,
                                      !.progress = NoProgress]
                /\ pc' = "article"
                /\ log' = msgs
                /\ UNCHANGED result
           ELSE AfterSource([run EXCEPT !.progress = NoProgress], msgs)
    /\ UNCHANGED << articles, search_terms, now, pa, added, reports, conc_vars >>

\* --------------------------------------------------- process_article
\* A call of process_article can meet a database error (sqlite3.Error: a
\* locked or unreadable file) at its SELECT, its INSERT or its commit.
DbFaults == { "none", "select", "insert", "commit" }

\* what one call did: its result, the table after it, the database error
\* it met, the date element of the page it fetched, the clock value the
\* extraction put in place of a date, the draft, the steps taken, the
\* messages logged and the clock when it ended
Outcome(ret, arts, db, page, t1, data, steps, msgs, t) ==
    [ ret |-> ret, articles |-> arts, db |-> db, date_kind |-> page.date,
      clock_read |-> IF page.date \in {"absent", "bad_rel", "bad_abs"} THEN t1 ELSE -1,
      article_data |-> data, steps |-> steps, log |-> msgs, time |-> t ]

NoPage == [kind |-> "none", date |-> "n/a", at |-> 0, content |-> {}]

\* process_article written as an upsert: no SELECT guard, and the INSERT
\* replaces the row that holds the url
process_article_upsert(arts, url, source, filtered, start, end, db, page, t0, t1, t2) ==
    LET data == extract_article_content(page, t1)
        row == NewRow(arts, url, source, data, t2)
        steps == << "select", "fetch", "filter", "categorize", "insert", "commit" >>
    IN  IF db = "select"
        THEN Outcome("raise", arts, db, NoPage, t0, NoData, << "select" >>, << >>, t0)
        ELSE IF ~data.ok
        THEN Outcome("False", arts, "none", page, t1, NoData, << "select", "fetch" >>,
                     ExtractLog(page), t1)
        ELSE IF filtered /\ ~InDateRange(start, end, data.publish_date)
        THEN Outcome("False", arts, "none", page, t1, data,
                     << "select", "fetch", "filter" >>, ExtractLog(page), t1)
        ELSE IF db \in { "insert", "commit" }
        THEN Outcome("False", arts, db, page, t1, data, steps, ExtractLog(page), t2)
        ELSE Outcome("True", { r \in arts : r.url # url } \cup { row }, "none", page, t1,
                     data, steps, ExtractLog(page), t2)

\* process_article(url, source, date_range) on the table arts at time t0,
\* where the page fetched is `page`, the database fails at `db`, the clock
\* reads t1 during the extraction and t2 when the row is built.  connect
\* and the SELECT stand before the try block, so an error there leaves the
\* call as an exception ("raise"); every later exception is caught and
\* gives False.
process_article(arts, url, source, filtered, start, end, db, page, t0, t1, t2) ==
    LET data == extract_article_content(page, t1)
        row == NewRow(arts, url, source, data, t2)
    IN  IF db = "select"
        THEN Outcome("raise", arts, db, NoPage, t0, NoData, << "select" >>, << >>, t0)
        ELSE IF ExistsInStore(arts, url)
        THEN Outcome("False", arts, "none", NoPage, t0, NoData, << "select" >>,
                     << "Article already exists in database" >>, t0)
        ELSE IF ~data.ok
        THEN Outcome("False", arts, "none", page, t1, NoData, << "select", "fetch" >>,
                     ExtractLog(page), t1)
        ELSE IF filtered /\ ~InDateRange(start, end, data.publish_date)
        THEN Outcome("False", arts, "none", page, t1, data,
                     << "select", "fetch", "filter" >>,
                     ExtractLog(page) \o << "Article skipped due to date filter" >>, t1)
        ELSE IF db = "insert" \/ ViolatesUnique(arts, url)
        THEN Outcome("False", arts, IF db = "insert" THEN db ELSE "unique", page, t1, data,
                     << "select", "fetch", "filter", "categorize", "insert" >>,
                     ExtractLog(page) \o << "Error processing article" >>, t2)
        ELSE IF db = "commit"
        THEN Outcome("False", arts, db, page, t1, data,
                     << "select", "fetch", "filter", "categorize", "insert", "commit" >>,
                     ExtractLog(page) \o << "Error processing article" >>, t2)
        ELSE Outcome("True", InsertRow(arts, row), "none", page, t1, data,
                     << "select", "fetch", "filter", "categorize", "insert", "commit" >>,
                     ExtractLog(page) \o << "Successfully saved article" >>, t2)

\* `if self.process_article(link, source_name, date_range=date_range):` in
\* the article loop of either run, over everything the database, the page
\* and the clock can do during the call
CallProcessArticle ==
    /\ pc = "article"
    /\ \E o \in { process_article(articles, run.links[run.idx], news_sources[run.src],
                                  run.filtered, run.start, run.end, db, page,
                                  now, t[1], t[2]) :
                      db \in DbFaults, page \in Pages,
                      t \in { tt \in (now .. MaxNow) \X (now .. MaxNow) : tt[1] <= tt[2] } } :
        /\ pa' = [ url |-> run.links[run.idx], source |-> news_sources[run.src],
                   db |-> o.db, ret |-> o.ret, date_kind |-> o.date_kind,
                   clock_read |-> o.clock_read, article_data |-> o.article_data,
                   steps |-> o.steps ]
        /\ articles' = o.articles
        /\ log' = o.log
        /\ pc' = IF o.ret = "raise" THEN "except" ELSE "returned"
        /\ now' = o.time
    /\ UNCHANGED << search_terms, run, result, visited, added, reports, conc_vars >>

\* `if self.process_article(...):` counts the link when the call gave True
Counts_never_false(ret) == TRUE
Counts(ret) == ret = "True"

\* processed counted from the link before
Processed_lagging(link_no) == link_no - 1

\* processed = idx + 1, where idx = link_no - 1 is the index enumerate()
\* gives the link_no-th link
Processed(link_no) == (link_no - 1) + 1

\* `if processed > 1:` avg_time = elapsed_time / processed;
\* remaining = total_links - processed; eta = remaining * avg_time
Eta(processed, total_links) ==
    IF processed > 1
    THEN [computed |-> TRUE, divisor |-> processed, remaining |-> total_links - processed]
    ELSE NoEta

\* the rest of the body of `for idx, link in enumerate(links)` after
\* process_article returned, and the step to the next link or source
LoopStep ==
    /\ pc = "returned"
    /\ LET counted == IF Counts(pa.ret)
                      THEN [run EXCEPT !.total_new_articles = @ + 1, !.new_added = @ + 1]
                      ELSE run
           r == [counted EXCEPT !.progress =
                    [ processed |-> Processed(run.idx),
                      total_links |-> Len(run.links),
                      new_added |-> counted.new_added,
                      eta |-> Eta(Processed(run.idx), Len(run.links)) ]]
       IN  IF run.idx < Len(run.links)
           THEN /\ run' = [r EXCEPT !.idx = run.idx + 1]
                /\ pc' = "article"
                /\ log' = << >>
                /\ UNCHANGED result
           ELSE AfterSource(r, << >>)
    /\ added' = IF Counts(pa.ret) THEN [added EXCEPT ![pa.url] = @ + 1] ELSE added
    /\ pa' = NoCall
    /\ UNCHANGED << articles, search_terms, now, visited, reports, conc_vars >>

\* `except Exception as e:` of the source loop: the error is logged and
\* the loop goes on with the next source
SourceError ==
    /\ pc = "except"
    /\ AfterSource(run, << "Error scraping" >>)
    /\ pa' = NoCall
    /\ UNCHANGED << articles, search_terms, now, visited, added, reports, conc_vars >>

\* the end of scrape_by_date_range: the coverage report, then the count.
\* analyze_articles_by_date_range is called outside any try block.
Report(db) ==
    /\ pc = "report"
    /\ IF db # "none"
       THEN /\ pc' = "exit"
            /\ result' = Raised("scrape_by_date_range", "sqlite3.Error")
            /\ log' = << "Scraping completed" >>
            /\ UNCHANGED reports
       ELSE /\ pc' = "print"
            /\ result' = Count("scrape_by_date_range", run.total_new_articles)
            /\ log' = << "Scraping completed", "Article analysis completed" >>
            /\ reports' = reports + 1
    /\ run' = Idle
    /\ UNCHANGED << articles, search_terms, now, pa, visited, added, conc_vars >>

\* main() prints what the operation returned and asks for the next choice
MenuLoop ==
    /\ pc = "print"
    /\ pc' = "menu"
    /\ result' = NoResult
    /\ visited' = {}
    /\ added' = [u \in URLs |-> 0]
    /\ reports' = 0
    /\ log' = << >>
    /\ UNCHANGED << articles, search_terms, now, run, pa, conc_vars >>

\* menu choice 11
Exit ==
    /\ pc = "menu"
    /\ pc' = "exit"
    /\ UNCHANGED << articles, search_terms, now, run, pa, log, result, visited,
                    added, reports, conc_vars >>

\* ------------------------------------------------- queries and export
\* the columns a SELECT names, of one row
Columns(r, cols) == [c \in cols |-> r[c]]

\* ORDER BY key DESC over the rows S: every sequence that lists each row of
\* S once with keys non-increasing (SQL leaves the order of equal keys open)
OrderByDesc(S, key) ==
    { q \in [1 .. Cardinality(S) -> S] :
        /\ \A i, j \in 1 .. Cardinality(S) : i # j => q[i] # q[j]
        /\ \A i, j \in 1 .. Cardinality(S) : i < j => q[i][key] >= q[j][key] }

\* the first n elements of q
Take(q, n) == [i \in 1 .. Min(n, Len(q)) |-> q[i]]

\* WHERE publish_date >= ? AND publish_date <= ?
InRange(arts, start_str, end_str) ==
    { r \in arts : r.publish_date >= start_str /\ r.publish_date <= end_str }

Terms == { "stock" }
Categories == { category_order[i] : i \in 1 .. Len(category_order) } \cup { "general" }

\* `title`, `summary` and `content` are one text here, so each SELECT list
\* names it once
SearchCols == { "id", "url", "source", "publish_date", "content" }
ListCols == { "id", "url", "source", "publish_date", "content", "category" }

\* search_by_term: records the term, then selects (one commit for both)
search_by_term(term) ==
    /\ pc = "menu"
    /\ pc' = "print"
    /\ search_terms' = { t \in search_terms : t.term # term }
                           \cup { [term |-> term, last_search |-> strftime(now)] }
    /\ \E q \in OrderByDesc({ r \in articles : term \in r.content }, "publish_date") :
           result' = Rows("search_by_term", << term >>,
                          [i \in 1 .. Len(q) |-> Columns(q[i], SearchCols)])
    /\ log' = << >>
    /\ UNCHANGED << articles, now, run, pa, visited, added, reports, conc_vars >>

\* get_articles_by_category
get_articles_by_category(category) ==
    /\ pc = "menu"
    /\ pc' = "print"
    /\ \E q \in OrderByDesc({ r \in articles : r.category = category }, "publish_date") :
           result' = Rows("get_articles_by_category", << category >>,
                          [i \in 1 .. Len(q) |-> Columns(q[i], SearchCols)])
    /\ log' = << >>
    /\ UNCHANGED << articles, search_terms, now, run, pa, visited, added,
                    reports, conc_vars >>

\* get_recent_articles
get_recent_articles(limit) ==
    /\ pc = "menu"
    /\ pc' = "print"
    /\ \E q \in OrderByDesc(articles, "retrieved_date") :
           result' = Rows("get_recent_articles", << limit >>,
                          Take([i \in 1 .. Len(q) |-> Columns(q[i], ListCols)], limit))
    /\ log' = << >>
    /\ UNCHANGED << articles, search_terms, now, run, pa, visited, added,
                    reports, conc_vars >>

\* get_articles_by_date_range: a ValueError of strptime is caught
get_articles_by_date_range(start_date, end_date) ==
    /\ pc = "menu"
    /\ pc' = "print"
    /\ IF strptime_ok(start_date) /\ strptime_ok(end_date)
       THEN /\ \E q \in OrderByDesc(InRange(articles, strftime(strptime(start_date)),
                                            strftime(end_of_day(strptime(end_date)))),
                                    "publish_date") :
                   result' = Rows("get_articles_by_date_range", << start_date, end_date >>,
                                  [i \in 1 .. Len(q) |-> Columns(q[i], ListCols)])
            /\ log' = << >>
       ELSE /\ result' = Rows("get_articles_by_date_range", << start_date, end_date >>,
                               << >>)
            /\ log' = << "Date format error" >>
    /\ UNCHANGED << articles, search_terms, now, run, pa, visited, added,
                    reports, conc_vars >>

Exported(op, args, rows) ==
    [kind |-> "export", op |-> op, args |-> args, n |-> Cardinality(rows), file |-> rows]

\* filter_query: None, a WHERE clause with two placeholders, or a WHERE
\* clause that names its value and has no placeholder; filter_params: the
\* values for the placeholders (None and () are both << >>)
NoQuery == "None"
RangeQuery == "publish_date >= ? AND publish_date <= ?"
LiteralQuery == "source = 'CNBC'"

WhereMatches(r, filter_query, filter_params) ==
    CASE filter_query = RangeQuery ->
             r.publish_date >= filter_params[1] /\ r.publish_date <= filter_params[2]
      [] filter_query = LiteralQuery -> r.source = "CNBC"

\* `if filter_query and filter_params:` SELECT * ... WHERE, else SELECT *
Selected(arts, filter_query, filter_params) ==
    IF filter_query # NoQuery /\ filter_params # << >>
    THEN { r \in arts : WhereMatches(r, filter_query, filter_params) }
    ELSE arts

\* the calls of export_to_json: no filter, a clause without placeholder,
\* a clause with its parameters
ExportFilters ==
    { << NoQuery, << >> >>, << LiteralQuery, << >> >> }
    \cup { << RangeQuery, << strftime(strptime(s)), strftime(end_of_day(strptime(e))) >> >> :
             s, e \in ValidDates }

\* export_to_json: one record per selected row, every column of it
export_to_json(filter_query, filter_params) ==
    /\ pc = "menu"
    /\ pc' = "print"
    /\ result' = Exported("export_to_json", << filter_query, filter_params >>,
                          Selected(articles, filter_query, filter_params))
    /\ log' = << "Exported" >>
    /\ UNCHANGED << articles, search_terms, now, run, pa, visited, added,
                    reports, conc_vars >>

\* export_date_range_to_json: export_to_json with the range as its filter;
\* a ValueError of strptime is caught and nothing is written
export_date_range_to_json(start_date, end_date) ==
    /\ pc = "menu"
    /\ pc' = "print"
    /\ IF strptime_ok(start_date) /\ strptime_ok(end_date)
       THEN /\ result' = Exported("export_date_range_to_json", << start_date, end_date >>,
                                   Selected(articles, RangeQuery,
                                            << strftime(strptime(start_date)),
                                               strftime(end_of_day(strptime(end_date))) >>))
            /\ log' = << "Exported" >>
       ELSE /\ result' = Count("export_date_range_to_json", 0)
            /\ log' = << "Date format error" >>
    /\ UNCHANGED << articles, search_terms, now, run, pa, visited, added,
                    reports, conc_vars >>

\* ------------------------------------------------------------ analysis
\* GROUP BY col ... COUNT(*): the groups of S with their counts
GroupCount(S, col) ==
    { << v, Cardinality({ r \in S : r[col] = v }) >> : v \in { r[col] : r \in S } }

\* the days counted by retrieval date
DailyDistribution_by_retrieved(S) ==
    { << d, Cardinality({ r \in S : sql_date(r.retrieved_date) = d }) >> :
          d \in { sql_date(r.retrieved_date) : r \in S } }

\* SELECT DATE(publish_date), COUNT(*) ... GROUP BY pub_date
DailyDistribution(S) ==
    { << d, Cardinality({ r \in S : sql_date(r.publish_date) = d }) >> :
          d \in { sql_date(r.publish_date) : r \in S } }

SumCounts(G) == Cardinality(UNION { { << g[1], i >> : i \in 1 .. g[2] } : g \in G })

\* count < max(3, 0.3 * total / groups), in whole numbers
BelowThreshold(count, total, groups) ==
    count < 3 \/ 10 * count * groups < 3 * total

\* the dict analyze_articles_by_date_range returns, both dates parsed
AnalysisReport(arts, start_dt, end_dt) ==
    LET S == InRange(arts, strftime(start_dt), strftime(end_dt))
        daily == DailyDistribution(S)
        date_range == (start_dt \div DayLen) .. (end_dt \div DayLen)
    IN  [ kind |-> "report",
          source_counts |-> GroupCount(S, "source"),
          category_distribution |-> GroupCount(S, "category"),
          daily_distribution |-> daily,
          missing_days |-> { d \in date_range : \A g \in daily : g[1] # d },
          days_with_few_articles |->
              { g \in daily : BelowThreshold(g[2], SumCounts(daily), Cardinality(daily)) } ]

\* analyze_articles_by_date_range, called from the menu: strptime stands
\* outside any try block, so its ValueError reaches main(), which returns
analyze_articles_by_date_range(start_date, end_date) ==
    /\ pc = "menu"
    /\ IF strptime_ok(start_date) /\ strptime_ok(end_date)
       THEN /\ result' = [ op |-> "analyze_articles_by_date_range",
                            args |-> << start_date, end_date >> ]
                          @@ AnalysisReport(articles, strptime(start_date),
                                            end_of_day(strptime(end_date)))
            /\ log' = << "Article analysis completed" >>
            /\ pc' = "print"
       ELSE /\ result' = Raised("analyze_articles_by_date_range", "ValueError")
            /\ log' = << >>
            /\ pc' = "exit"
    /\ UNCHANGED << articles, search_terms, now, run, pa, visited, added, reports,
                    conc_vars >>

\* a quality check that records itself in the search_terms table
check_coverage_quality_recording(start_date, end_date) ==
    /\ pc = "menu"
    /\ pc' = "print"
    /\ search_terms' = search_terms
                           \cup { [term |-> "coverage", last_search |-> strftime(now)] }
    /\ result' = [ kind |-> "quality", op |-> "check_coverage_quality",
                   args |-> << start_date, end_date >>, range |-> << 0, 0 >>,
                   total_articles |-> Cardinality(articles),
                   low_coverage_sources |-> {} ]
    /\ log' = << >>
    /\ UNCHANGED << articles, now, run, pa, visited, added, reports, conc_vars >>

\* check_coverage_quality: the same unguarded strptime
check_coverage_quality(start_date, end_date) ==
    /\ pc = "menu"
    /\ LET ok == /\ end_date.kind = "none" \/ strptime_ok(end_date)
                 /\ start_date.kind = "none" \/ strptime_ok(start_date)
           end_dt == IF end_date.kind = "none" THEN now
                     ELSE end_of_day(strptime(end_date))
           start_dt == IF start_date.kind = "none" THEN end_dt - DefaultDays * DayLen
                       ELSE strptime(start_date)
           S == InRange(articles, strftime(start_dt), strftime(end_dt))
           by_source == GroupCount(S, "source")
       IN  IF ok
           THEN /\ result' = [ kind |-> "quality",
                               op |-> "check_coverage_quality",
                               args |-> << start_date, end_date >>,
                               range |-> << start_dt, end_dt >>,
                               total_articles |-> Cardinality(S),
                               low_coverage_sources |->
                                   { g \in by_source :
                                       BelowThreshold(g[2], Cardinality(S),
                                                      Cardinality(by_source)) } ]
                /\ pc' = "print"
           ELSE /\ result' = Raised("check_coverage_quality", "ValueError")
                /\ pc' = "exit"
    /\ log' = << >>
    /\ UNCHANGED << articles, search_terms, now, run, pa, visited, added, reports,
                    conc_vars >>

Next ==
    \/ Tick
    \/ \E s, e \in DateArgs : StartRecent(s, e)
    \/ StartAll
    \/ \E o \in ListingOutcomes : Discover(o)
    \/ CallProcessArticle
    \/ LoopStep
    \/ SourceError
    \/ \E db \in { "none", "select" } : Report(db)
    \/ \E term \in Terms : search_by_term(term)
    \/ \E c \in Categories : get_articles_by_category(c)
    \/ \E limit \in 1 .. MaxLinks : get_recent_articles(limit)
    \/ \E s, e \in DateStrings : get_articles_by_date_range(s, e)
    \/ \E f \in ExportFilters : export_to_json(f[1], f[2])
    \/ \E s, e \in DateStrings : export_date_range_to_json(s, e)
    \/ \E s, e \in DateStrings : analyze_articles_by_date_range(s, e)
    \/ \E s, e \in DateArgs : check_coverage_quality(s, e)
    \/ MenuLoop
    \/ Exit

Spec == Init /\ [][Next]_vars

\* ------------------------------------------- concurrent process_article
\* Two callers run process_article at once, each on its own connection to
\* the one database file, statement by statement.  SQLite lets one
\* connection write at a time: an INSERT takes the write lock, which the
\* commit (or the close after an error) releases; a SELECT sees committed
\* rows only.
ConcRanges == { NoRange, [filtered |-> TRUE, start |-> 0, end |-> end_of_day(0)] }

\* process_article(url, source, date_range) is called
ConcCall(i, url, range) ==
    /\ w[i].pc = "idle"
    /\ w' = [w EXCEPT ![i] = [NotCalled EXCEPT !.pc = "select", !.url = url,
                                               !.source = news_sources[i],
                                               !.date_range = range]]
    /\ UNCHANGED << fn, articles, search_terms, now, pc, run, pa, log, result, visited,
                    added, reports, lock >>

Returns(i, ret) == [w EXCEPT ![i].pc = "done", ![i].ret = ret, ![i].row = {}]

\* cursor.execute("SELECT id FROM articles WHERE url=?"); if cursor.fetchone()
ConcSelect(i) ==
    /\ w[i].pc = "select"
    /\ w' = IF ExistsInStore(articles, w[i].url)
            THEN Returns(i, "False")
            ELSE [w EXCEPT ![i].pc = "extract"]
    /\ UNCHANGED << fn, articles, search_terms, now, pc, run, pa, log, result, visited,
                    added, reports, lock >>

\* article_data = self.extract_article_content(url), and the date filter
ConcExtract(i, page) ==
    /\ w[i].pc = "extract"
    /\ LET data == extract_article_content(page, now)
           range == w[i].date_range
       IN  w' = IF ~data.ok
                    \/ (range.filtered /\ ~InDateRange(range.start, range.end,
                                                       data.publish_date))
                THEN Returns(i, "False")
                ELSE [w EXCEPT ![i].pc = "insert", ![i].article_data = data]
    /\ UNCHANGED << fn, articles, search_terms, now, pc, run, pa, log, result, visited,
                    added, reports, lock >>

\* cursor.execute(INSERT ...): with the write lock free, the row is written
\* to this connection's transaction unless its url is in the table
\* (IntegrityError); with the lock held by the other connection the
\* statement waits, and raises OperationalError when the wait times out.
\* Either exception is caught and the call returns False.
ConcInsert(i, timed_out) ==
    /\ w[i].pc = "insert"
    /\ IF lock # 0
       THEN /\ timed_out
            /\ w' = [Returns(i, "False") EXCEPT ![i].inserted = TRUE]
            /\ UNCHANGED lock
       ELSE /\ ~timed_out
            /\ IF ViolatesUnique(articles, w[i].url)
               THEN /\ w' = [Returns(i, "False") EXCEPT ![i].inserted = TRUE]
                    /\ UNCHANGED lock
               ELSE /\ w' = [w EXCEPT ![i].pc = "commit", ![i].inserted = TRUE,
                                      ![i].row = { NewRow(articles, w[i].url, w[i].source,
                                                          w[i].article_data, now) }]
                    /\ lock' = i
    /\ UNCHANGED << fn, articles, search_terms, now, pc, run, pa, log, result, visited,
                    added, reports >>

\* conn.commit(); conn.close(); return True
ConcCommit(i) ==
    /\ w[i].pc = "commit"
    /\ lock = i
    /\ articles' = UNION { InsertRow(articles, row) : row \in w[i].row }
    /\ lock' = 0
    /\ w' = Returns(i, "True")
    /\ UNCHANGED << fn, search_terms, now, pc, run, pa, log, result, visited, added,
                    reports >>

InitConc == Init

NextConc ==
    \/ \E i \in Workers, url \in URLs, range \in ConcRanges : ConcCall(i, url, range)
    \/ \E i \in Workers : ConcSelect(i)
    \/ \E i \in Workers, page \in Pages : ConcExtract(i, page)
    \/ \E i \in Workers, timed_out \in BOOLEAN : ConcInsert(i, timed_out)
    \/ \E i \in Workers : ConcCommit(i)

SpecConc == InitConc /\ [][NextConc]_vars

\* ------------------------------------------- categorize_article alone
\* categorize_article applied to every text in which at most MaxPhrases of
\* the keyword phrases occur.  A phrase that contains another one brings it
\* along ("stocks" contains "stock").
AllKeywords == UNION { category_keywords(category_order[i]) :
                          i \in 1 .. Len(category_order) }

Contained == { << "stock", "stocks" >>, << "crypto", "cryptocurrency" >>,
               << "fed", "federal reserve" >>,
               << "real estate", "commercial real estate" >> }

SubstringClosure(t) == t \cup { p[1] : p \in { q \in Contained : q[2] \in t } }

RECURSIVE PhraseSets(_)
PhraseSets(n) ==
    IF n = 0 THEN { {} }
    ELSE LET S == PhraseSets(n - 1)
         IN  S \cup { t \cup { k } : t \in S, k \in AllKeywords }

Texts == { SubstringClosure(t) : t \in PhraseSets(MaxPhrases) }

InitCategorize ==
    /\ ProgramInit
    /\ fn \in { [op |-> "categorize_article", text |-> t, out |-> "none"] : t \in Texts }

CallCategorize ==
    /\ fn.op = "categorize_article" /\ fn.out = "none"
    /\ fn' = [fn EXCEPT !.out = categorize_article(fn.text)]
    /\ UNCHANGED prog_vars

NextCategorize == CallCategorize

SpecCategorize == InitCategorize /\ [][NextCategorize]_vars

\* ------------------------------------------- parse_relative_time alone
\* The text, lower-cased and stripped, is a sequence of tokens: a run of
\* digits (its value n), white space, one of the letters m h d y, another
\* character that is neither digit nor space ("x"), or one of the two
\* phrases the function looks for.  Two digit runs are never adjacent.
\* Instants are whole minutes here, counted from datetime.min; the clock
\* stands NowYears 365-day years after it.
UnitTokens == { "m", "h", "d", "y" }
PhraseTokens == { "a few seconds ago", "just now" }
Tokens ==
    { [k |-> "int", n |-> n] : n \in 1 .. MaxN }
    \cup { [k |-> c, n |-> 0] : c \in UnitTokens \cup PhraseTokens \cup { "sp", "x" } }

RECURSIVE RelTexts(_)
RelTexts(len) ==
    IF len = 0 THEN { << >> }
    ELSE LET S == RelTexts(len - 1)
         IN  S \cup { Append(t, c) : t \in { u \in S : Len(u) = len - 1 }, c \in Tokens }

NoAdjacentInts(t) ==
    \A i \in 1 .. (Len(t) - 1) : ~(t[i].k = "int" /\ t[i + 1].k = "int")

\* timedelta(minutes=1), (hours=1), (days=1), (days=365), in minutes
MinutesOf(unit) ==
    CASE unit = "m" -> 1
      [] unit = "h" -> 60
      [] unit = "d" -> 24 * 60
      [] unit = "y" -> 365 * 24 * 60

DatetimeMin == 0
RefNow == NowYears * MinutesOf("y")

\* re.search(r'(\d+)\s*([mhdy])', text): the positions << i, j >> of a digit
\* run and of a unit letter with only white space between them
RegexMatches(text) ==
    { m \in (1 .. Len(text)) \X (1 .. Len(text)) :
        /\ m[1] < m[2]
        /\ text[m[1]].k = "int"
        /\ text[m[2]].k \in UnitTokens
        /\ \A l \in (m[1] + 1) .. (m[2] - 1) : text[l].k = "sp" }

Returned(t) == [kind |-> "datetime", at |-> t]
RaisedBy(e) == [kind |-> "raise", exc |-> e]

\* parse_relative_time(text) when the clock reads t.  A datetime before
\* datetime.min does not exist: the subtraction raises OverflowError.
parse_relative_time(text, t) ==
    LET ms == RegexMatches(text)
        m == CHOOSE x \in ms : \A y \in ms : x[1] <= y[1]
        value == text[m[1]].n
        unit == text[m[2]].k
    IN  IF ms # {}
        THEN IF t - value * MinutesOf(unit) < DatetimeMin
             THEN RaisedBy("OverflowError")
             ELSE Returned(t - value * MinutesOf(unit))
        ELSE IF \E i \in 1 .. Len(text) : text[i].k \in PhraseTokens
        THEN Returned(t)
        ELSE RaisedBy("ValueError")

InitRelativeTime ==
    /\ ProgramInit
    /\ fn \in { [op |-> "parse_relative_time", text |-> t, now |-> RefNow,
                  out |-> [kind |-> "none"]] :
                  t \in { u \in RelTexts(MaxTokens) : NoAdjacentInts(u) } }

CallParseRelativeTime ==
    /\ fn.op = "parse_relative_time" /\ fn.out.kind = "none"
    /\ fn' = [fn EXCEPT !.out = parse_relative_time(fn.text, fn.now)]
    /\ UNCHANGED prog_vars

NextRelativeTime == CallParseRelativeTime

SpecRelativeTime == InitRelativeTime /\ [][NextRelativeTime]_vars

\* =============================================================== claims
SumAdded == Cardinality(UNION { { << u, i >> : i \in 1 .. added[u] } : u \in URLs })

RowsOf(u) == { r \in articles : r.url = u }

AllSources == 1 .. NumSources

RunReturned ==
    /\ pc = "print" /\ result.kind = "count"
    /\ result.op \in { "scrape_by_date_range", "scrape_all_articles" }

\* C1: a call of process_article for a URL the table already holds changes
\* no row of the table and returns False, whatever the source, the date
\* range and the page are.  (The one other way out of such a call is a
\* database error at the SELECT itself, which C4 is about; the table is
\* unchanged then too.)
C1_ReingestIsNoOp ==
    [][ (pc = "article" /\ pc' # "article"
            /\ ExistsInStore(articles, run.links[run.idx]))
        => /\ articles' = articles
           /\ pa'.url = run.links[run.idx]
           /\ (pa'.ret = "False" \/ pa'.db = "select") ]_vars

\* a link found again, in a run with a date range, while its row is stored
C1_Witness ==
    /\ pc = "returned" /\ run.filtered
    /\ pa.ret = "False" /\ pa.steps = << "select" >>
    /\ RowsOf(pa.url) # {}

\* C2: in a run with a date range, a link that was not stored, whose page
\* was fetched and extracted and whose database statements all ran is
\* persisted exactly when start <= publish instant <= end, both ends
\* included; a call that returns True has a publish instant in the range.
C2_DateRangeFilter ==
    (pc = "returned" /\ run.filtered /\ pa.article_data.ok /\ pa.db = "none")
    => /\ (pa.ret = "True")
              <=> InDateRange(run.start, run.end, pa.article_data.publish_date)
       /\ (RowsOf(pa.url) # {})
              <=> (run.start <= pa.article_data.publish_date
                      /\ pa.article_data.publish_date <= run.end)
       /\ \A r \in RowsOf(pa.url) :
              r.publish_date = strftime(pa.article_data.publish_date)

\* an article published in the last instant of the range is persisted
C2_Witness ==
    /\ pc = "returned" /\ run.filtered /\ pa.ret = "True"
    /\ pa.article_data.publish_date = run.end
    /\ run.start < run.end
    /\ RowsOf(pa.url) # {}

\* C3: no error ends a run: scrape_by_date_range never leaves as an
\* exception (stated as the claim has it; the code violates it)
C3_RunNeverRaises ==
    ~(result.kind = "raised" /\ result.op = "scrape_by_date_range")

\* C4: a database error in process_article, at the SELECT, the INSERT or
\* the commit, makes the call return False and the article loop go on
\* (stated as the claim has it; the code violates it at the SELECT)
C4_StorageFaultSkipsOneArticle ==
    pa.db \in { "select", "insert", "commit" }
    => (pc = "returned" /\ pa.ret = "False")

\* C5: when the fetch of a source's listing page fails, that source yields
\* no link, none of its articles is processed, the table and the count are
\* as before, and the run goes on to the next source (or to its end); at
\* the end of every run that returns, every source was visited.
C5_ListingFailureIsolated ==
    /\ [][ (pc = "discover" /\ visited' # visited
               /\ Len(log') > 0 /\ log'[1] = "Error fetching")
           => /\ articles' = articles
              /\ pc' \notin { "article", "except", "exit" }
              /\ run.src < NumSources
                    => /\ pc' = "discover" /\ run'.src = run.src + 1
                       /\ run'.links = << >>
                       /\ run'.total_new_articles = run.total_new_articles
              /\ run.src = NumSources
                    => /\ pc' \in { "report", "print" }
                       /\ pc' = "print"
                             => result' = Count("scrape_all_articles",
                                                run.total_new_articles)
                       /\ pc' = "report"
                             => run'.total_new_articles = run.total_new_articles ]_vars
    /\ []((pc = "report" \/ RunReturned) => visited = AllSources)

\* the first source's listing could not be fetched and the run is at the
\* second source
C5_Witness ==
    /\ pc = "discover" /\ run.src = 2 /\ visited = { 1 }
    /\ log = << "Error fetching", "Found potential article links" >>

\* C6: an analysis operation given a date that is not YYYY-MM-DD returns
\* an empty result and does not raise (stated as the claim has it; the
\* code violates it)
C6_MalformedDatesNeverRaise ==
    ~(result.kind = "raised"
        /\ result.op \in { "analyze_articles_by_date_range", "check_coverage_quality" })

\* C7: two concurrent calls for one URL that both reached their INSERT
\* leave exactly one row for it; one call returned True and the other False
C7_OneRowOneWinner ==
    (/\ \A i \in Workers : w[i].pc = "done" /\ w[i].inserted
     /\ w[1].url = w[2].url)
    => /\ Cardinality(RowsOf(w[1].url)) = 1
       /\ { w[1].ret, w[2].ret } = { "True", "False" }

\* both calls passed the SELECT, both ran their INSERT, both returned
C7_Witness ==
    /\ \A i \in Workers : w[i].pc = "done" /\ w[i].inserted
    /\ w[1].url = w[2].url
    /\ w[1].ret = "False" /\ w[2].ret = "True"

\* C8: a link that several sources of one run discover is counted once:
\* no URL is counted twice in a run or stored in two rows, a call for a URL
\* the run has already counted does not return True, and the count a run
\* returns is the number of URLs it counted.
C8_OverlapCountedOnce ==
    /\ \A u \in URLs : added[u] <= 1 /\ Cardinality(RowsOf(u)) <= 1
    /\ (pc = "returned" /\ added[pa.url] = 1) => pa.ret # "True"
    /\ RunReturned => result.n = SumAdded

\* the second source has just processed a link the first source added
C8_Witness ==
    /\ pc = "returned" /\ run.src = 2 /\ added[pa.url] = 1
    /\ pa.ret = "False" /\ run.total_new_articles = 1
    /\ Cardinality(RowsOf(pa.url)) = 1

\* C9: a stored row stays in the table, with every field as it is, through
\* every step of every operation
C9_AppendOnly == [][ \A r \in articles : r \in articles' ]_vars

\* a second run has processed a link while the table held two rows
C9_Witness ==
    /\ Cardinality(articles) = 2
    /\ pc = "returned" /\ pa.ret = "False"
    /\ search_terms # {}

\* C10: a page whose date element is missing or cannot be parsed still
\* gives a draft, with the clock's reading as its publish instant; the call
\* goes on to the date filter and does not raise
C10_ParseFailureNotFatal ==
    pa.date_kind \in { "absent", "bad_rel", "bad_abs" }
    => /\ pa.article_data.ok
       /\ pa.article_data.publish_date = pa.clock_read
       /\ pa.ret \in { "True", "False" }
       /\ Len(pa.steps) >= 3

\* an article whose date failed the relative rule was persisted
C10_Witness ==
    /\ pc = "returned" /\ pa.date_kind = "bad_rel" /\ pa.ret = "True"
    /\ \E r \in RowsOf(pa.url) : r.publish_date = strftime(pa.clock_read)

\* the stored rows published on the days first .. last, by the seconds of
\* their publish_date
PublishedOnDays(first, last) ==
    { r \in articles :
        /\ first * SecPerDay <= r.publish_date
        /\ r.publish_date <= last * SecPerDay + (SecPerDay - 1) }

\* C11: get_articles_by_date_range with two YYYY-MM-DD dates returns each
\* stored article whose publish time lies between 00:00:00 of the start day
\* and 23:59:59 of the end day, both included, once, and no other article,
\* newest publish time first.
C11_QueryByDateRange ==
    (/\ result.kind = "rows" /\ result.op = "get_articles_by_date_range"
     /\ result.args[1].kind = "date" /\ result.args[2].kind = "date")
    => /\ { result.rows[i].id : i \in 1 .. Len(result.rows) }
              = { r.id : r \in PublishedOnDays(result.args[1].day, result.args[2].day) }
       /\ Len(result.rows)
              = Cardinality(PublishedOnDays(result.args[1].day, result.args[2].day))
       /\ \A i \in 1 .. Len(result.rows) :
              \E r \in articles :
                  /\ r.id = result.rows[i].id /\ r.url = result.rows[i].url
                  /\ r.publish_date = result.rows[i].publish_date
       /\ \A i, j \in 1 .. Len(result.rows) :
              i < j => result.rows[i].publish_date >= result.rows[j].publish_date

\* a one-day query returned the article of that day's last second and left
\* out the article of the next day
C11_Witness ==
    /\ pc = "print"
    /\ result.kind = "rows" /\ result.op = "get_articles_by_date_range"
    /\ result.args = << [kind |-> "date", day |-> 0], [kind |-> "date", day |-> 0] >>
    /\ Len(result.rows) = 1
    /\ result.rows[1].publish_date = SecPerDay - 1
    /\ \E r \in articles : r.publish_date >= SecPerDay

\* how many keyword phrases of the category occur in the text
PhraseCount(category, text) ==
    Cardinality({ k \in category_keywords(category) : k \in text })

\* C12: categorize_article returns 'general' exactly when no keyword phrase
\* of any of the seven categories occurs in the text; otherwise it returns
\* a category whose phrase count is positive and highest, and among
\* several with the highest count the one declared first.
C12_Categorize ==
    (fn.op = "categorize_article" /\ fn.out # "none")
    => /\ (fn.out = "general")
              <=> \A i \in 1 .. 7 : PhraseCount(category_order[i], fn.text) = 0
       /\ fn.out # "general"
              => \E i \in 1 .. 7 :
                     /\ category_order[i] = fn.out
                     /\ PhraseCount(fn.out, fn.text) > 0
                     /\ \A j \in 1 .. 7 :
                            PhraseCount(category_order[j], fn.text)
                                <= PhraseCount(fn.out, fn.text)
                     /\ \A j \in 1 .. (i - 1) :
                            PhraseCount(category_order[j], fn.text)
                                < PhraseCount(fn.out, fn.text)

\* "mortgage" counts once for personal_finance and once for real_estate:
\* the category declared first is returned
C12_Witness ==
    /\ fn.op = "categorize_article"
    /\ fn.text = { "mortgage" }
    /\ fn.out = "personal_finance"

\* the text has a digit run followed, after white space or none, by one of
\* m h d y, and the first such run has value n and unit u
FirstMatchIs(text, n, u) ==
    \E i \in 1 .. Len(text) : \E j \in (i + 1) .. Len(text) :
        /\ text[i].k = "int" /\ text[i].n = n /\ text[j].k = u
        /\ \A l \in (i + 1) .. (j - 1) : text[l].k = "sp"
        /\ \A i2 \in 1 .. (i - 1) :
              ~\E j2 \in (i2 + 1) .. Len(text) :
                  /\ text[i2].k = "int" /\ text[j2].k \in UnitTokens
                  /\ \A l \in (i2 + 1) .. (j2 - 1) : text[l].k = "sp"

HasMatch(text) == \E n \in 1 .. MaxN : \E u \in UnitTokens : FirstMatchIs(text, n, u)

HasPhrase(text) == \E i \in 1 .. Len(text) : text[i].k \in PhraseTokens

\* C13: parse_relative_time returns now minus n minutes, hours, days or
\* 365*n days for the first <integer><unit> match of the text, now for a
\* text without a match that holds 'just now' or 'a few seconds ago', and
\* fails as unparseable (ValueError) for every other text (stated as the
\* claim has it; the code violates it when the result would lie before the
\* earliest datetime)
C13_RelativeTime ==
    (fn.op = "parse_relative_time" /\ fn.out.kind # "none")
    => /\ \A n \in 1 .. MaxN : \A u \in UnitTokens :
              FirstMatchIs(fn.text, n, u)
                  => fn.out = Returned(fn.now - n * MinutesOf(u))
       /\ (~HasMatch(fn.text) /\ HasPhrase(fn.text)) => fn.out = Returned(fn.now)
       /\ (~HasMatch(fn.text) /\ ~HasPhrase(fn.text)) => fn.out = RaisedBy("ValueError")

\* what does hold: the same, for the texts whose first match leaves the
\* result at or after datetime.min
RelativeTimeInRange ==
    (fn.op = "parse_relative_time" /\ fn.out.kind # "none")
    => /\ \A n \in 1 .. MaxN : \A u \in UnitTokens :
              (FirstMatchIs(fn.text, n, u) /\ fn.now - n * MinutesOf(u) >= DatetimeMin)
                  => fn.out = Returned(fn.now - n * MinutesOf(u))
       /\ (~HasMatch(fn.text) /\ HasPhrase(fn.text)) => fn.out = Returned(fn.now)
       /\ (~HasMatch(fn.text) /\ ~HasPhrase(fn.text)) => fn.out = RaisedBy("ValueError")

\* '1d 3h' gave now minus one day
MultiUnitFirstWins ==
    /\ fn.op = "parse_relative_time"
    /\ Len(fn.text) = 5
    /\ fn.text[1] = [k |-> "int", n |-> 1] /\ fn.text[2].k = "d" /\ fn.text[3].k = "sp"
    /\ fn.text[4] = [k |-> "int", n |-> 3] /\ fn.text[5].k = "h"
    /\ fn.out = Returned(fn.now - 24 * 60)

CoverageOps == { "analyze_articles_by_date_range", "check_coverage_quality" }

\* C14: a call of analyze_articles_by_date_range or check_coverage_quality,
\* from the menu with any arguments (malformed ones included) or at the end
\* of a scrape_by_date_range run, leaves the articles table and the
\* search_terms table as they were.
C14_CoverageOpsReadOnly ==
    [][ (\/ pc = "report"
         \/ /\ pc = "menu"
            /\ result'.kind \in { "report", "quality", "raised" }
            /\ result'.op \in CoverageOps)
        => (articles' = articles /\ search_terms' = search_terms) ]_vars

\* both tables hold rows and a coverage operation has just returned
C14_Witness ==
    /\ pc = "print"
    /\ result.kind \in { "report", "quality" }
    /\ result.op = "check_coverage_quality"
    /\ result.total_articles = 2
    /\ Cardinality(articles) = 2 /\ search_terms # {}

\* C15: export_to_json writes exactly the rows that match the filter when
\* one is supplied and every stored row when none is; each record is a
\* whole row and the count returned is the number of records (stated as
\* the claim has it; the code violates it for a filter without parameters)
C15_ExportAll ==
    (result.kind = "export" /\ result.op = "export_to_json")
    => /\ result.args[1] = NoQuery => result.file = articles
       /\ result.args[1] = LiteralQuery
              => result.file = { r \in articles : r.source = "CNBC" }
       /\ result.args[1] = RangeQuery
              => result.file = { r \in articles :
                                   /\ r.publish_date >= result.args[2][1]
                                   /\ r.publish_date <= result.args[2][2] }
       /\ result.file \subseteq articles
       /\ result.n = Cardinality(result.file)

\* what does hold: the same, with the filter applied only when it comes
\* with parameters
ExportWithParameters ==
    (result.kind = "export" /\ result.op = "export_to_json")
    => /\ (result.args[1] = NoQuery \/ result.args[2] = << >>)
              => result.file = articles
       /\ (result.args[1] = RangeQuery /\ result.args[2] # << >>)
              => result.file = { r \in articles :
                                   /\ r.publish_date >= result.args[2][1]
                                   /\ r.publish_date <= result.args[2][2] }
       /\ result.file \subseteq articles
       /\ result.n = Cardinality(result.file)

\* a filtered export wrote one of the two stored rows
FilteredExport ==
    /\ pc = "print"
    /\ result.kind = "export" /\ result.op = "export_to_json"
    /\ result.args[1] = RangeQuery
    /\ Cardinality(articles) = 2 /\ result.n = 1

\* how many stored articles have their publish time on day d
PublishedOn(d) == Cardinality(PublishedOnDays(d, d))

\* C16: the report of analyze_articles_by_date_range(start, end) covers
\* every day from start to end, both included: a day with no stored article
\* is in missing_days, a day with articles is in the daily distribution
\* with their number, no day is in both or in neither, and no other day is
\* reported.
C16_AnalyzeRangeDays ==
    (result.kind = "report" /\ result.op = "analyze_articles_by_date_range")
    => LET first == result.args[1].day
           last == result.args[2].day
           counted == { g[1] : g \in result.daily_distribution }
       IN  /\ \A d \in first .. last :
                  /\ (d \in result.missing_days) <=> (PublishedOn(d) = 0)
                  /\ (d \in counted) <=> (PublishedOn(d) > 0)
                  /\ (d \in counted) # (d \in result.missing_days)
           /\ \A g \in result.daily_distribution :
                  g[1] \in first .. last /\ g[2] = PublishedOn(g[1]) /\ g[2] > 0
           /\ result.missing_days \subseteq first .. last

\* a two-day range with an article on the second day only
C16_Witness ==
    /\ pc = "print"
    /\ result.kind = "report" /\ result.op = "analyze_articles_by_date_range"
    /\ result.args[1].day = 0 /\ result.args[2].day = 1
    /\ result.missing_days = { 0 }
    /\ result.daily_distribution = { << 1, 1 >> }

StepOrder == << "select", "fetch", "filter", "categorize", "insert", "commit" >>

Took(steps, step) == \E i \in 1 .. Len(steps) : steps[i] = step

\* C17: every call of process_article takes its steps in the order exists
\* check, fetch and extraction, date filter, categorize, insert (then
\* commit), stopping at the first that fails.  A URL already stored is
\* skipped without a fetch; a URL not stored is fetched; the INSERT is
\* reached only after a successful extraction and, in a run with a date
\* range, a publish instant inside it; a call that does not reach the
\* INSERT leaves the table as it was.
C17_StepOrder ==
    [][ (pc = "article" /\ pc' # "article")
        => LET url == run.links[run.idx]
               steps == pa'.steps
           IN  /\ Len(steps) >= 1 /\ Len(steps) <= Len(StepOrder)
               /\ \A i \in 1 .. Len(steps) : steps[i] = StepOrder[i]
               /\ ExistsInStore(articles, url) => steps = << "select" >>
               /\ (~ExistsInStore(articles, url) /\ pa'.db # "select")
                      => Took(steps, "fetch")
               /\ Took(steps, "insert")
                      => /\ ~ExistsInStore(articles, url)
                         /\ pa'.article_data.ok
                         /\ run.filtered
                               => /\ run.start <= pa'.article_data.publish_date
                                  /\ pa'.article_data.publish_date <= run.end
               /\ ~Took(steps, "insert") => articles' = articles
               /\ (Took(steps, "fetch") /\ ~pa'.article_data.ok)
                      => (~Took(steps, "filter") /\ articles' = articles) ]_vars

\* an article fetched and extracted, then stopped by the date filter
C17_Witness ==
    /\ pc = "returned" /\ run.filtered
    /\ pa.steps = << "select", "fetch", "filter" >>
    /\ pa.article_data.ok /\ pa.ret = "False"
    /\ RowsOf(pa.url) = {}

\* C18: every scrape_by_date_range run produces the coverage report once,
\* after all sources were visited, and a scrape_all_articles run never
\* does (stated as the claim has it; the code violates it in the runs that
\* C3 is about, which end in an exception without a report)
C18_ReportOncePerRun ==
    /\ reports <= 1
    /\ reports = 1 => visited = AllSources
    /\ (result.kind \in { "count", "raised" } /\ result.op = "scrape_by_date_range")
           => reports = 1
    /\ (run.mode = "all" \/ (result.kind = "count" /\ result.op = "scrape_all_articles"))
           => reports = 0

\* what does hold: the same, for the runs that return
ReportOncePerReturningRun ==
    /\ reports <= 1
    /\ reports = 1 => visited = AllSources
    /\ pc = "report" => (reports = 0 /\ visited = AllSources)
    /\ (result.kind = "count" /\ result.op = "scrape_by_date_range") => reports = 1
    /\ (run.mode = "all" \/ (result.kind = "count" /\ result.op = "scrape_all_articles"))
           => reports = 0

\* a run that added nothing has returned, with its report
ReportAfterEmptyRun ==
    /\ pc = "print"
    /\ result = Count("scrape_by_date_range", 0)
    /\ articles = {} /\ reports = 1 /\ visited = AllSources

\* C19: in the article loop 0 <= new_added <= processed <= total_links at
\* every point, and the ETA is computed only with processed >= 1, so that
\* its divisor is not zero, and with remaining = total_links - processed
\* not negative.
C19_ProgressInvariant ==
    /\ 0 <= run.progress.new_added
    /\ run.progress.new_added <= run.progress.processed
    /\ run.progress.processed <= run.progress.total_links
    /\ run.progress.eta.computed
           => /\ run.progress.processed >= 1
              /\ run.progress.eta.divisor = run.progress.processed
              /\ run.progress.eta.remaining
                     = run.progress.total_links - run.progress.processed
              /\ run.progress.eta.remaining >= 0
    /\ (pc \in { "article", "returned" } \/ (pc = "except" /\ run.links # << >>))
           => /\ 0 <= run.new_added /\ run.new_added <= run.idx - 1
              /\ run.idx <= Len(run.links)

\* the second of two links is done, both were added, the ETA was computed
C19_Witness ==
    /\ run.progress.processed = 2 /\ run.progress.total_links = 2
    /\ run.progress.new_added = 2
    /\ run.progress.eta.computed /\ run.progress.eta.remaining = 0

ScrapeOps == { "scrape_by_date_range", "scrape_all_articles" }

\* C20: process_article returns True exactly when it added one row, the
\* row of its URL, and a call that returns False left the table as it was
\* (as did a call that did not return); the total a run returns is the
\* number of rows in the table after the run minus the number before it.
C20_CountStoreAgreement ==
    [][ /\ (pc = "article" /\ pc' # "article")
           => /\ (pa'.ret = "True")
                     <=> /\ Cardinality(articles') = Cardinality(articles) + 1
                         /\ articles \subseteq articles'
                         /\ \A r \in articles' \ articles : r.url = pa'.url
              /\ pa'.ret = "False" => articles' = articles
              /\ articles' = articles => pa'.ret \in { "False", "raise" }
        /\ (run.mode # "none" /\ result'.kind = "count" /\ result'.op \in ScrapeOps)
           => /\ result'.n = Cardinality(articles') - run.rows_before
              /\ result'.n >= 0 ]_vars

\* a run over a table of one row has returned 1 and the table holds two
C20_Witness ==
    /\ pc = "print"
    /\ result.kind = "count" /\ result.op \in ScrapeOps /\ result.n = 1
    /\ Cardinality(articles) = 2 /\ SumAdded = 1

====
